---- MODULE Spec2Model ----
(***************************************************************************)
(* A model of cytoscape.js-layers: the layer stack kept by LayersPlugin    *)
(* (src/src/LayersPlugin.ts), the viewport handling of the DOM layers      *)
(* (HTMLLayer, SVGLayer) and the per-node binding created by renderPerNode *)
(* (src/src/elements/nodes.ts).                                            *)
(*                                                                         *)
(* The layer stack is not stored anywhere: it is read off the children of  *)
(* the container element that holds the host's own canvases.  The model    *)
(* therefore keeps the child lists of the DOM containers and derives the   *)
(* stack from them exactly as the getter `layers` does.                    *)
(***************************************************************************)
EXTENDS Integers, Sequences, FiniteSets, TLC

(***************************************************************************)
(* Bounds of the model.                                                    *)
(***************************************************************************)
\* number of nodes of the host
MaxNodes == 2
\* a node that still carries MaxListeners listeners of the binding is not
\* added to the graph again
MaxListeners == 1
\* the counters of a burst stop counting at CountCap
CountCap == 2
\* number of surfaces the plugin may create (append / insert)
MaxCreated == 1
\* move offsets range over -MaxOffset .. MaxOffset
MaxOffset == 2
\* number of plugin instances the function layers may construct
MaxInstances == 2

(***************************************************************************)
(* Identities.                                                             *)
(***************************************************************************)
\* names of the surfaces the plugin creates, in creation order
NewIds == <<"L1", "L2", "L3", "L4", "L5", "L6">>

\* the three canvases of the host, wrapped by the constructor
HostCanvases == <<"layer0-selectbox", "layer1-drag", "layer2-node">>

\* an element some other script put into the container: it carries no
\* __cy_layer back reference
PlainElement == "plain"

\* a surface of another plugin instance, attached to another container
ForeignAttached == "F1"
\* a surface of another plugin instance that is attached nowhere
ForeignDetached == "F2"

Null == "null"

LayerTypes == {"svg", "html", "canvas"}
Wheres == {"before", "after"}
Offsets == (0 - MaxOffset) .. MaxOffset

\* pan (x, y) and zoom values of the host
Viewports == {[pan |-> <<0, 0>>, zoom |-> 1], [pan |-> <<5, 7>>, zoom |-> 2]}
\* width and height of the host
SizeValues == {<<100, 80>>, <<200, 160>>}

VARIABLES
  children,   \* container -> sequence of its child elements (DOM order)
  layer,      \* surface -> its record (type, size, transform, flags)
  host,       \* pan, zoom, width, height of the host
  thrown      \* the error the last call threw, "none" when it returned

stackVars == <<children, layer, host, thrown>>

VARIABLES
  o,          \* the options of the binding (renderPerNode)
  bstate,     \* "none": no binding yet, "active", "removed": remove() was called
  graph,      \* the nodes of the host that are in the graph (all match o.selector)
  nodes,      \* the closure variable `nodes`: the cached collection
  updateOnRenderOnceEnabled,  \* the closure flag of revaluateAndUpdateOnce
  layerOnceEnabled,           \* the surface's own updateOnRenderOnce flag
  cyListeners,   \* the listeners registered on the host, in registration order
  nodeListeners, \* node -> number of updateOn listeners registered on it
  callback,      \* TRUE while the binding's renderer is registered on the surface
  targets,       \* the nodes that have a render target on the DOM or vector surface
  last,          \* what the last handler did (observation, not program state)
  burst          \* what a burst of add/remove events did so far (observation)

bindingVars ==
  <<o, bstate, graph, nodes, updateOnRenderOnceEnabled, layerOnceEnabled,
    cyListeners, nodeListeners, callback, targets, last, burst>>

VARIABLES
  container,     \* TRUE when cy.container() is an element (no headless host)
  scratch,       \* cy.scratch('_layers'): the stored plugin instance, or NoInstance
  instances,     \* the number of plugin instances constructed so far
  hostListeners, \* the listeners the plugin instances registered on the host
  removed,       \* the surfaces whose remove() has been called
  lifeLast       \* what the last call or host event did (observation)

lifeVars == <<container, scratch, instances, hostListeners, removed, lifeLast>>

vars == <<stackVars, bindingVars, lifeVars>>

(***************************************************************************)
(* Helpers on sequences.                                                   *)
(***************************************************************************)
Range(s) == {s[i] : i \in 1..Len(s)}

\* Array.prototype.indexOf: zero based, -1 when absent
IndexOf(s, x) ==
  IF x \in Range(s) THEN (CHOOSE i \in 1..Len(s) : s[i] = x) - 1 ELSE 0 - 1

Without(s, x) ==
  LET keep(d) == d # x IN SelectSeq(s, keep)

\* s with x placed so that it ends at zero based position p
InsertAt(s, p, x) == SubSeq(s, 1, p) \o <<x>> \o SubSeq(s, p + 1, Len(s))

MinOf(S) == CHOOSE m \in S : \A k \in S : m <= k
MaxOf(S) == CHOOSE m \in S : \A k \in S : m >= k

\* Math.min / Math.max of an argument list
MathMin(args) == MinOf(Range(args))
MathMax(args) == MaxOf(Range(args))

(***************************************************************************)
(* The DOM operations the plugin uses.                                     *)
(***************************************************************************)
ParentOf(ch, el) ==
  IF \E c \in DOMAIN ch : el \in Range(ch[c])
  THEN CHOOSE c \in DOMAIN ch : el \in Range(ch[c])
  ELSE Null

Detach(ch, el) == [c \in DOMAIN ch |-> Without(ch[c], el)]

\* parent.appendChild(el): el leaves its old place and becomes the last child
appendChild(ch, parent, el) ==
  LET d == Detach(ch, el) IN [d EXCEPT ![parent] = Append(@, el)]

\* parent.insertBefore(el, refEl), refEl a child of parent other than el
insertBefore(ch, parent, el, refEl) ==
  LET d == Detach(ch, el) IN
  [d EXCEPT ![parent] = InsertAt(@, IndexOf(@, refEl), el)]

\* refEl.insertAdjacentElement(position, el): nothing happens (null is
\* returned) when refEl has no parent
insertAdjacentElement(ch, refEl, position, el) ==
  LET p == ParentOf(ch, refEl) IN
  IF p = Null THEN ch
  ELSE LET d == Detach(ch, el) IN
       [d EXCEPT ![p] =
          IF position = "beforebegin"
          THEN InsertAt(@, IndexOf(@, refEl), el)
          ELSE InsertAt(@, IndexOf(@, refEl) + 1, el)]

(***************************************************************************)
(* Surfaces.                                                               *)
(***************************************************************************)
NoTransform == [fn |-> "none", tx |-> 0, ty |-> 0, unit |-> "", scale |-> 0]
NoSize == <<0, 0>>

\* a surface right after its constructor
NewLayer(type) ==
  [type |-> type, size |-> NoSize, transform |-> NoTransform,
   updateOnTransform |-> FALSE]

StaticTypes == {"node", "drag", "select-box", "html-static", "svg-static"}

\* HTMLLayer.setViewport: translate(<tx>px,<ty>px)scale(<zoom>)
HTMLsetViewport(l, tx, ty, zoom) ==
  [l EXCEPT !.transform =
     [fn |-> "translate", tx |-> tx, ty |-> ty, unit |-> "px", scale |-> zoom]]

\* SVGLayer.setViewport: translate(<tx>,<ty>)scale(<zoom>)
SVGsetViewport(l, tx, ty, zoom) ==
  [l EXCEPT !.transform =
     [fn |-> "translate", tx |-> tx, ty |-> ty, unit |-> "", scale |-> zoom]]

\* CanvasLayer.setViewport: the transform is kept for the next draw pass
CanvassetViewport(l, tx, ty, zoom) ==
  [l EXCEPT !.transform =
     [fn |-> "ctx", tx |-> tx, ty |-> ty, unit |-> "", scale |-> zoom]]

\* the static layers and the wrappers of the host canvases ignore the call
StaticsetViewport(l, tx, ty, zoom) == l

setViewport(l, tx, ty, zoom) ==
  CASE l.type = "html" -> HTMLsetViewport(l, tx, ty, zoom)
    [] l.type = "svg" -> SVGsetViewport(l, tx, ty, zoom)
    [] l.type = "canvas" -> CanvassetViewport(l, tx, ty, zoom)
    [] OTHER -> StaticsetViewport(l, tx, ty, zoom)

\* layer.resize(width, height)
layerResize(l, width, height) ==
  IF l.type \in LayerTypes THEN [l EXCEPT !.size = <<width, height>>] ELSE l

(***************************************************************************)
(* LayersPlugin.                                                           *)
(***************************************************************************)
\* get root(): the parent element of the host's node canvas
root == "root"

\* d.__cy_layer: the surface an element refers back to, if any
cyLayer(ly, d) == IF d \in DOMAIN ly THEN d ELSE Null

\* layers without the filter on the back reference
layers_Unfiltered(ch, ly) == ch[root]

\* private get layers()
layers(ch, ly) ==
  LET marked(d) == cyLayer(ly, d) # Null IN SelectSeq(ch[root], marked)

getLayers(ch, ly) == layers(ch, ly)

getLast(ch, ly) ==
  LET l == layers(ch, ly) IN IF Len(l) = 0 THEN Null ELSE l[Len(l)]

getFirst(ch, ly) ==
  LET l == layers(ch, ly) IN IF Len(l) = 0 THEN Null ELSE l[1]

\* init without the viewport call
init_SkipsViewport(l, h) == layerResize(l, h.width, h.height)

\* private init(layer)
init(l, h) ==
  setViewport(layerResize(l, h.width, h.height), h.pan[1], h.pan[2], h.zoom)

\* private createLayer(type)
createLayer(type, h) == init(NewLayer(type), h)

\* the surfaces created so far, and the name of the next one
Created(ly) == {i \in 1..Len(NewIds) : NewIds[i] \in DOMAIN ly}
NextId(ly) == NewIds[Cardinality(Created(ly)) + 1]

\* the target index computed by move (line 67)
moveTarget(index, offset, length) ==
  MathMax(<<MathMin(<<index + offset, length, 0>>)>>)

\* private move(layer, offset): the new child lists and the error thrown
move(ch, ly, id, offset) ==
  LET l == layers(ch, ly)
      index == IndexOf(l, id)
      target == moveTarget(index, offset, Len(l))
  IN  IF target = index THEN [children |-> ch, err |-> "none"]
      ELSE IF index >= Len(l) - 1
           THEN [children |-> appendChild(ch, root, id), err |-> "none"]
           ELSE IF target < 0 \/ target >= Len(l)
                THEN [children |-> ch, err |-> "TypeError"]
                ELSE [children |-> insertBefore(ch, root, id, l[target + 1]),
                      err |-> "none"]

\* private zoomed(): every surface of the stack gets the pan and zoom
zoomed(ch, ly, h) ==
  LET l == Range(layers(ch, ly)) IN
  [id \in DOMAIN ly |->
     IF id \in l THEN setViewport(ly[id], h.pan[1], h.pan[2], h.zoom) ELSE ly[id]]

\* private resize(): every surface of the stack gets the width and height
resize(ch, ly, h) ==
  LET l == Range(layers(ch, ly)) IN
  [id \in DOMAIN ly |->
     IF id \in l THEN layerResize(ly[id], h.width, h.height) ELSE ly[id]]

(***************************************************************************)
(* Initial state: the plugin has been constructed on a host with a         *)
(* container.  The container holds the host's three canvases and possibly  *)
(* an element of somebody else.                                            *)
(***************************************************************************)
HostLayers ==
  [id \in Range(HostCanvases) |->
     NewLayer(CASE id = "layer2-node" -> "node"
                [] id = "layer1-drag" -> "drag"
                [] OTHER -> "select-box")]

ForeignLayers ==
  [id \in {ForeignAttached, ForeignDetached} |-> NewLayer("svg")]

StackInit ==
  /\ children \in {[root |-> HostCanvases, other |-> <<ForeignAttached>>],
                   [root |-> Append(HostCanvases, PlainElement),
                    other |-> <<ForeignAttached>>]}
  /\ layer = HostLayers @@ ForeignLayers
  /\ host \in {[pan |-> v.pan, zoom |-> v.zoom, width |-> s[1], height |-> s[2]] :
                 v \in Viewports, s \in SizeValues}
  /\ thrown = "none"

(***************************************************************************)
(* Actions of the layer stack.                                             *)
(***************************************************************************)
\* append(type)
append(type) ==
  /\ Cardinality(Created(layer)) < MaxCreated
  /\ LET id == NextId(layer) IN
     /\ layer' = layer @@ (id :> createLayer(type, host))
     /\ children' = appendChild(children, root, id)
     /\ thrown' = "none"
  /\ UNCHANGED host

\* insert with the two positions exchanged
insert_Swapped(where, ref, type) ==
  /\ Cardinality(Created(layer)) < MaxCreated
  /\ LET id == NextId(layer) IN
     /\ layer' = layer @@ (id :> createLayer(type, host))
     /\ children' = insertAdjacentElement(children, ref,
                      IF where = "before" THEN "afterend" ELSE "beforebegin", id)
     /\ thrown' = "none"
  /\ UNCHANGED host

\* insert(where, ref, type)
insert(where, ref, type) ==
  /\ Cardinality(Created(layer)) < MaxCreated
  /\ LET id == NextId(layer) IN
     /\ layer' = layer @@ (id :> createLayer(type, host))
     /\ children' = insertAdjacentElement(children, ref,
                      IF where = "before" THEN "beforebegin" ELSE "afterend", id)
     /\ thrown' = "none"
  /\ UNCHANGED host

\* adapter.move(layer, offset), reached from the surfaces of this plugin
Move(id, offset) ==
  LET r == move(children, layer, id, offset) IN
  /\ children' = r.children
  /\ thrown' = r.err
  /\ UNCHANGED <<layer, host>>

\* the host pans or zooms and emits 'viewport'
HostViewport(v) ==
  /\ <<v.pan, v.zoom>> # <<host.pan, host.zoom>>
  /\ host' = [host EXCEPT !.pan = v.pan, !.zoom = v.zoom]
  /\ layer' = zoomed(children, layer, host')
  /\ thrown' = "none"
  /\ UNCHANGED children

\* the host is resized and emits 'resize'
HostResize(size) ==
  /\ size # <<host.width, host.height>>
  /\ host' = [host EXCEPT !.width = size[1], !.height = size[2]]
  /\ layer' = resize(children, layer, host')
  /\ thrown' = "none"
  /\ UNCHANGED children

\* the surfaces that carry this plugin's adapter
Mine == {NewIds[i] : i \in Created(layer)}

(***************************************************************************)
(* The binding made by renderPerNode(layer, render, options).              *)
(*                                                                         *)
(* The handlers run to completion, so each is one action.  Inside a        *)
(* handler the state is threaded through the calls as a record s.          *)
(***************************************************************************)
Nodes == 1..MaxNodes

\* updateOn is 'none', 'render' or the name of an event of the nodes
UpdateOns == {"none", "render", "position"}

\* position: where the render target is put relative to the node
Positions == {"none", "top-left", "center"}

\* the render callback of the caller: one that only draws, and one that also
\* changes the transform of the drawing context it is given
Renders == {"plain", "transforms"}

\* the options of the binding, with the render callback as field render
Options ==
  [allowPartialUpdate : BOOLEAN, queryEachTime : BOOLEAN,
   updateOn : UpdateOns, checkBounds : BOOLEAN,
   uniqueElements : BOOLEAN, position : Positions, render : Renders]

\* the defaults of lines 86-100
NoOptions ==
  [allowPartialUpdate |-> FALSE, queryEachTime |-> FALSE,
   updateOn |-> "none", checkBounds |-> FALSE,
   uniqueElements |-> FALSE, position |-> "top-left", render |-> "plain"]

\* o.updateOn !== 'none' && o.updateOn !== 'render'
OnEvent(opt) == opt.updateOn # "none" /\ opt.updateOn # "render"

\* the surface the binding is made on
Bound == NewIds[1]

\* node.position() of the host's nodes
NodePosition(n) ==
  CASE n = 1 -> <<10, 20>>
    [] n = 2 -> <<70, 55>>
    [] OTHER -> <<30, 30>>

\* node.boundingBox(o.boundingBox) of the host's nodes: boxes of different
\* sizes, the second one not centred on its node
BoundingBox(n) ==
  CASE n = 1 -> [x1 |-> 5, y1 |-> 15, x2 |-> 15, y2 |-> 25]
    [] n = 2 -> [x1 |-> 60, y1 |-> 50, x2 |-> 100, y2 |-> 70]
    [] OTHER -> [x1 |-> 28, y1 |-> 29, x2 |-> 32, y2 |-> 31]

\* layer.inVisibleBounds(bb): the box, drawn with the pan and zoom of the
\* host, meets the area of the host
inVisibleBounds(bb, h) ==
  /\ bb.x1 * h.zoom + h.pan[1] <= h.width
  /\ bb.x2 * h.zoom + h.pan[1] >= 0
  /\ bb.y1 * h.zoom + h.pan[2] <= h.height
  /\ bb.y2 * h.zoom + h.pan[2] >= 0

\* the hint a repaint is given: none, a node (layer.update(node)), or the
\* flag forExport
NoHint == [kind |-> "none", node |-> 0]
NodeHint(n) == [kind |-> "node", node |-> n]
ExportHint == [kind |-> "export", node |-> 0]

Listener(type, cb, one) == [type |-> type, cb |-> cb, one |-> one]

\* cy.on(type, selector, cb): one more listener, also when cb is registered
cyOn(s, type, cb) ==
  [s EXCEPT !.cyListeners = Append(@, Listener(type, cb, FALSE))]

\* cy.one(type, cb)
cyOne(s, type, cb) ==
  [s EXCEPT !.cyListeners = Append(@, Listener(type, cb, TRUE))]

\* cy.off(types, selector, cb): every listener of cb on one of the types goes
cyOff(s, types, cb) ==
  LET keep(l) == ~(l.type \in types /\ l.cb = cb) IN
  [s EXCEPT !.cyListeners = SelectSeq(@, keep)]

\* the first occurrence of l leaves the list (a one-shot listener that fires)
RemoveFirst(seq, l) ==
  LET i == CHOOSE k \in 1..Len(seq) :
             seq[k] = l /\ \A j \in 1..(k - 1) : seq[j] # l
  IN  SubSeq(seq, 1, i - 1) \o SubSeq(seq, i + 1, Len(seq))

\* collection.on(o.updateOn, layer.updateOnRenderOnce)
nodesOn(s, coll) ==
  [s EXCEPT !.nodeListeners =
     [n \in Nodes |-> IF n \in coll THEN @[n] + 1 ELSE @[n]]]

\* collection.off(o.updateOn, undefined, layer.updateOnRenderOnce)
nodesOff(s, coll) ==
  [s EXCEPT !.nodeListeners =
     [n \in Nodes |-> IF n \in coll THEN 0 ELSE @[n]]]

\* layer.updateOnRender: the surface repaints on every render tick
updateOnRender(s) ==
  \E i \in 1..Len(s.cyListeners) : s.cyListeners[i].cb = "layer.update"

\* layer.updateOnRenderOnce(): one repaint on the next render tick, once;
\* nothing to schedule when the surface repaints on every tick anyway
layerUpdateOnRenderOnce(s) ==
  IF s.layerOnceEnabled \/ updateOnRender(s) THEN s
  ELSE cyOne([s EXCEPT !.layerOnceEnabled = TRUE], "render", "layer.updateOnce")

\* reevaluateCollection(current), with `nodes = ` of every caller
reevaluateCollection(opt, s) ==
  LET newNodes == s.graph
      s1 == IF OnEvent(opt) THEN nodesOff(s, s.nodes) ELSE s
      s2 == IF opt.allowPartialUpdate THEN cyOff(s1, {"remove"}, "removeNode") ELSE s1
      s3 == IF OnEvent(opt) THEN nodesOn(s2, newNodes) ELSE s2
      s4 == IF opt.allowPartialUpdate THEN cyOn(s3, "remove", "removeNode") ELSE s3
      s5 == layerUpdateOnRenderOnce(s4)
  IN  [s5 EXCEPT !.nodes = newNodes, !.revals = @ + 1]

(***************************************************************************)
(* A render pass.                                                          *)
(***************************************************************************)
\* nodes.forEach: the elements of a collection, in the order of the collection
RECURSIVE forEach(_)
forEach(coll) ==
  IF coll = {} THEN <<>>
  ELSE LET n == MinOf(coll) IN <<n>> \o forEach(coll \ {n})

\* the transform of the drawing context when a pass starts: the pan and zoom
\* the surface was given
ctxGetTransform(l) ==
  [scale |-> l.transform.scale, tx |-> l.transform.tx, ty |-> l.transform.ty]

\* ctx.translate(x, y)
ctxTranslate(t, x, y) ==
  [t EXCEPT !.tx = @ + t.scale * x, !.ty = @ + t.scale * y]

\* render(ctx, node, bb): the context after the caller's callback
renderCallback(render, t) ==
  IF render = "transforms" THEN ctxTranslate(t, 1, 1) ELSE t

\* the renderer of a drawing surface that restores the transform only for
\* position 'center'
canvasRestore_CenterOnly(opt, t, after) ==
  IF opt.position = "center" THEN t ELSE after

\* lines 195-197: the transform the next element starts with
canvasRestore(opt, t, after) ==
  IF opt.position # "none" THEN t ELSE after

\* the anchoring that uses the centre of the bounding box for 'center'
anchorPoint_BoxCentre(opt, n) ==
  LET bb == BoundingBox(n) IN
  CASE opt.position = "top-left" -> <<bb.x1, bb.y1>>
    [] opt.position = "center" -> <<(bb.x1 + bb.x2) \div 2, (bb.y1 + bb.y2) \div 2>>
    [] OTHER -> <<>>

\* lines 188-193, 227-232, 260-265: the point the target is translated to
anchorPoint(opt, n) ==
  LET bb == BoundingBox(n) IN
  CASE opt.position = "top-left" -> <<bb.x1, bb.y1>>
    [] opt.position = "center" -> NodePosition(n)
    [] OTHER -> <<>>

\* the bounds check of the drawing surface that ignores the export flag
canvasSkips_NoExport(opt, s, hint, n) ==
  opt.checkBounds /\ ~inVisibleBounds(BoundingBox(n), s.view)

\* line 185
canvasSkips(opt, s, hint, n) ==
  hint.kind # "export" /\ opt.checkBounds /\ ~inVisibleBounds(BoundingBox(n), s.view)

\* the render callback has been called for node n
Rendered(s, n, from, at) ==
  [s EXCEPT !.rendered = @ \cup {n},
            !.anchors = (n :> [from |-> from, at |-> at]) @@ @]

\* lines 180-198: the turns of the elements, cur being the transform of the
\* context and t the one saved when the pass started
RECURSIVE canvasForEach(_, _, _, _, _, _)
canvasForEach(opt, s, hint, t, cur, seq) ==
  IF Len(seq) = 0 THEN s
  ELSE LET n == Head(seq) IN
       IF n \notin s.graph \/ canvasSkips(opt, s, hint, n)
       THEN canvasForEach(opt, s, hint, t, cur, Tail(seq))
       ELSE LET p == anchorPoint(opt, n)
                at == IF Len(p) = 0 THEN cur ELSE ctxTranslate(cur, p[1], p[2])
                after == renderCallback(opt.render, at)
                s1 == [Rendered(s, n, cur, at) EXCEPT !.leaked = @ \/ cur # t]
            IN  canvasForEach(opt, s1, hint, t, canvasRestore(opt, t, after), Tail(seq))

\* the renderer of a drawing surface (lines 175-199)
canvasRenderer(opt, s, hint) ==
  LET t == ctxGetTransform(s.surface)
      s1 == IF opt.queryEachTime THEN reevaluateCollection(opt, s) ELSE s
  IN  canvasForEach(opt, s1, hint, t, t, forEach(s1.nodes))

\* baseOptions.uniqueElements without allowPartialUpdate
uniqueElements_OptionOnly(opt) == opt.uniqueElements

\* baseOptions.uniqueElements (line 208)
uniqueElements(opt) == opt.uniqueElements \/ opt.allowPartialUpdate

\* baseOptions.isVisible (line 207)
isVisible(opt, s, n) ==
  IF opt.checkBounds THEN inVisibleBounds(BoundingBox(n), s.view) ELSE TRUE

\* the transform of a DOM or vector target before any anchoring
NoAnchor == [fn |-> "", x |-> 0, y |-> 0, unit |-> ""]

\* matchOptions.update (lines 226-234, 259-267): the style transform of the
\* target for html (px) and the transform attribute for svg
domAnchor(opt, s, n) ==
  LET p == anchorPoint(opt, n) IN
  IF Len(p) = 0 THEN NoAnchor
  ELSE [fn |-> "translate3d", x |-> p[1], y |-> p[2],
        unit |-> IF s.surface.type = "html" THEN "px" ELSE ""]

RECURSIVE domUpdateEach(_, _, _)
domUpdateEach(opt, s, seq) ==
  IF Len(seq) = 0 THEN s
  ELSE LET n == Head(seq) IN
       domUpdateEach(opt, Rendered(s, n, NoAnchor, domAnchor(opt, s, n)), Tail(seq))

\* matchNodes(root, nodes, matchOptions): every element of the collection
\* gets a target (kept when the targets are unique, made anew otherwise),
\* the targets of the other elements go, and the visible elements are
\* updated
matchNodes(opt, s, coll) ==
  LET kept == IF uniqueElements(opt) THEN s.targets \cap coll ELSE {}
      shown == {n \in coll : isVisible(opt, s, n)}
      s1 == [s EXCEPT !.targets = coll, !.created = @ \cup (coll \ kept)]
  IN  domUpdateEach(opt, s1, forEach(shown))

\* matchNodes(root, node, matchOptions) under allowPartialUpdate: only the
\* target of the one node is touched; the target of a removed node goes
matchNode(opt, s, n) ==
  IF n \notin s.graph THEN [s EXCEPT !.targets = @ \ {n}]
  ELSE LET s1 == [s EXCEPT !.targets = @ \cup {n},
                           !.created = @ \cup ({n} \ s.targets)]
       IN  IF isVisible(opt, s1, n) THEN domUpdateEach(opt, s1, <<n>>) ELSE s1

\* the renderer of a DOM or vector surface (lines 236-245, 269-278)
domRenderer(opt, s, hint) ==
  IF opt.queryEachTime
  THEN LET s1 == reevaluateCollection(opt, s) IN matchNodes(opt, s1, s1.nodes)
  ELSE IF hint.kind = "node" THEN matchNode(opt, s, hint.node)
       ELSE matchNodes(opt, s, s.nodes)

\* the renderer registered on the surface
renderer(opt, s, hint) ==
  IF s.surface.type = "canvas" THEN canvasRenderer(opt, s, hint)
  ELSE domRenderer(opt, s, hint)

\* layer.update(hint): a repaint, which runs the registered callbacks
layerUpdate(opt, s, hint) ==
  LET s1 == [s EXCEPT !.updates = @ + 1] IN
  IF s1.callback THEN renderer(opt, s1, hint) ELSE s1

\* registerCallback(layer, renderer): the callback is registered and the
\* surface repainted
registerCallback(opt, s) ==
  layerUpdate(opt, [s EXCEPT !.callback = TRUE], NoHint)

\* the remove() registerCallback returns
callbackRemove(opt, s) ==
  layerUpdate(opt, [s EXCEPT !.callback = FALSE], NoHint)

\* revaluateAndUpdateOnce that repaints at once
revaluateAndUpdateOnce_Sync(opt, s) ==
  layerUpdate(opt, reevaluateCollection(opt, s), NoHint)

\* revaluateAndUpdateOnce without its flag
revaluateAndUpdateOnce_NoFlag(opt, s) ==
  cyOne([s EXCEPT !.updateOnRenderOnceEnabled = TRUE], "render", "revaluateOnce")

\* revaluateAndUpdateOnce
revaluateAndUpdateOnce(opt, s) ==
  IF s.updateOnRenderOnceEnabled THEN s
  ELSE cyOne([s EXCEPT !.updateOnRenderOnceEnabled = TRUE], "render", "revaluateOnce")

\* the one-shot callback of revaluateAndUpdateOnce (lines 109-113)
revaluateOnce(opt, s) ==
  LET s1 == [s EXCEPT !.updateOnRenderOnceEnabled = FALSE]
      s2 == reevaluateCollection(opt, s1)
  IN  layerUpdate(opt, s2, NoHint)

\* the one-shot callback of layer.updateOnRenderOnce
layerUpdateOnce(opt, s) ==
  layerUpdate(opt, [s EXCEPT !.layerOnceEnabled = FALSE], NoHint)

\* removeNode that keeps the node in the cached collection
removeNode_KeepsCached(opt, s, target) ==
  layerUpdate(opt, s, NoHint)

\* removeNode
removeNode(opt, s, target) ==
  layerUpdate(opt, [s EXCEPT !.nodes = @ \ {target}], NodeHint(target))

\* a listener of the host is called
Dispatch(opt, s, cb, target) ==
  CASE cb = "revaluateAndUpdateOnce" -> revaluateAndUpdateOnce(opt, s)
    [] cb = "removeNode" -> removeNode(opt, s, target)
    [] cb = "revaluateOnce" -> revaluateOnce(opt, s)
    [] cb = "layer.updateOnce" -> layerUpdateOnce(opt, s)
    [] cb = "layer.update" -> layerUpdate(opt, s, NoHint)

\* the host calls the listeners it had when the event was emitted, in
\* registration order; a one-shot listener is taken off before it is called
RECURSIVE CallAll(_, _, _, _)
CallAll(opt, s, snapshot, target) ==
  IF Len(snapshot) = 0 THEN s
  ELSE LET l == Head(snapshot)
           s1 == IF l.one /\ l \in Range(s.cyListeners)
                 THEN [s EXCEPT !.cyListeners = RemoveFirst(@, l)] ELSE s
       IN  CallAll(opt, Dispatch(opt, s1, l.cb, target), Tail(snapshot), target)

Emit(opt, s, type, target) ==
  LET of(l) == l.type = type IN
  CallAll(opt, s, SelectSeq(s.cyListeners, of), target)

\* nothing was rendered
NoAnchors == [n \in {} |-> NoAnchor]

\* the state a handler starts from
Now ==
  [graph |-> graph, nodes |-> nodes,
   updateOnRenderOnceEnabled |-> updateOnRenderOnceEnabled,
   layerOnceEnabled |-> layerOnceEnabled,
   cyListeners |-> cyListeners, nodeListeners |-> nodeListeners,
   callback |-> callback, targets |-> targets,
   surface |-> layer[Bound], view |-> host,
   revals |-> 0, updates |-> 0,
   rendered |-> {}, created |-> {}, leaked |-> FALSE, anchors |-> NoAnchors]

\* a burst is followed only on an active cached binding whose surface is
\* repainted by nothing else, and starts with no one-shot listener pending
NoBurst == [phase |-> "idle", revals |-> 0, updates |-> 0]

Capped(n) == IF n > CountCap THEN CountCap ELSE n

Followed ==
  bstate = "active" /\ ~o.queryEachTime /\ o.updateOn = "none"

Quiet == \A i \in 1..Len(cyListeners) : ~cyListeners[i].one

BurstAfter(op, s) ==
  IF ~Followed THEN NoBurst
  ELSE IF op \in {"add", "remove"}
       THEN IF burst.phase = "events"
            THEN [burst EXCEPT !.revals = Capped(@ + s.revals),
                               !.updates = Capped(@ + s.updates)]
            ELSE IF Quiet
                 THEN [phase |-> "events", revals |-> Capped(s.revals),
                       updates |-> Capped(s.updates)]
                 ELSE NoBurst
       ELSE IF op = "render" /\ burst.phase # "idle"
            THEN [phase |-> "ticked", revals |-> Capped(burst.revals + s.revals),
                  updates |-> Capped(burst.updates + s.updates)]
            ELSE NoBurst

\* what a handler did
Observed(op, s) ==
  [op |-> op, revals |-> Capped(s.revals), updates |-> Capped(s.updates),
   rendered |-> s.rendered, created |-> s.created, leaked |-> s.leaked,
   anchors |-> s.anchors]

\* the handler is over: s becomes the state
Done(op, s) ==
  /\ graph' = s.graph
  /\ nodes' = s.nodes
  /\ updateOnRenderOnceEnabled' = s.updateOnRenderOnceEnabled
  /\ layerOnceEnabled' = s.layerOnceEnabled
  /\ cyListeners' = s.cyListeners
  /\ nodeListeners' = s.nodeListeners
  /\ callback' = s.callback
  /\ targets' = s.targets
  /\ last' = Observed(op, s)
  /\ burst' = BurstAfter(op, s)

\* no handler has run
NoLast ==
  [op |-> "none", revals |-> 0, updates |-> 0, rendered |-> {},
   created |-> {}, leaked |-> FALSE, anchors |-> NoAnchors]

BindingInit ==
  /\ o = NoOptions
  /\ bstate = "none"
  /\ graph = {1}
  /\ nodes = {}
  /\ updateOnRenderOnceEnabled = FALSE
  /\ layerOnceEnabled = FALSE
  /\ cyListeners = <<>>
  /\ nodeListeners = [n \in Nodes |-> 0]
  /\ callback = FALSE
  /\ targets = {}
  /\ last = NoLast
  /\ burst = NoBurst

\* renderPerNode that installs the add and remove listeners in every mode
renderPerNode_AlwaysListens(opt) ==
  /\ bstate = "none"
  /\ o' = opt
  /\ bstate' = "active"
  /\ layer' = [layer EXCEPT ![Bound].updateOnTransform =
                 IF layer[Bound].type # "canvas" /\ opt.checkBounds THEN TRUE ELSE @]
  /\ LET s0 == IF opt.updateOn = "render"
               THEN cyOn(Now, "render", "layer.update") ELSE Now
         r == IF opt.queryEachTime THEN s0 ELSE reevaluateCollection(opt, s0)
         s1 == cyOn(cyOn(r, "add", "revaluateAndUpdateOnce"),
                    "remove", "revaluateAndUpdateOnce")
     IN  Done("renderPerNode", registerCallback(opt, [s1 EXCEPT !.surface = layer'[Bound]]))
  /\ UNCHANGED <<children, host, thrown>>

\* renderPerNode(layer, render, options) (lines 102-156, 200, 211-213)
renderPerNode(opt) ==
  /\ bstate = "none"
  /\ o' = opt
  /\ bstate' = "active"
  /\ layer' = [layer EXCEPT ![Bound].updateOnTransform =
                 IF layer[Bound].type # "canvas" /\ opt.checkBounds THEN TRUE ELSE @]
  /\ LET s0 == IF opt.updateOn = "render"
               THEN cyOn(Now, "render", "layer.update") ELSE Now
         s1 == IF opt.queryEachTime THEN s0
               ELSE LET r == reevaluateCollection(opt, s0) IN
                    IF opt.allowPartialUpdate /\ OnEvent(opt)
                    THEN cyOn(cyOn(r, "add", "revaluateAndUpdateOnce"),
                              "remove", "removeNode")
                    ELSE cyOn(cyOn(r, "add", "revaluateAndUpdateOnce"),
                              "remove", "revaluateAndUpdateOnce")
     IN  Done("renderPerNode", registerCallback(opt, [s1 EXCEPT !.surface = layer'[Bound]]))
  /\ UNCHANGED <<children, host, thrown>>

\* the remove() of the result (lines 161-170)
remove ==
  /\ bstate = "active"
  /\ bstate' = "removed"
  /\ LET s1 == IF OnEvent(o)
               THEN LET t == nodesOff(Now, nodes) IN
                    IF o.allowPartialUpdate
                    THEN cyOff(t, {"remove"}, "removeNode") ELSE t
               ELSE Now
         s2 == cyOff(s1, {"add", "remove"}, "revaluateAndUpdateOnce")
     IN  Done("remove", callbackRemove(o, s2))
  /\ UNCHANGED <<o, stackVars>>

\* the host adds node n and emits 'add'
HostAdd(n) ==
  /\ n \notin graph
  /\ nodeListeners[n] < MaxListeners
  /\ Done("add", Emit(o, [Now EXCEPT !.graph = @ \cup {n}], "add", n))
  /\ UNCHANGED <<o, bstate, stackVars>>

\* the host removes node n and emits 'remove'
HostRemove(n) ==
  /\ n \in graph
  /\ Done("remove node", Emit(o, [Now EXCEPT !.graph = @ \ {n}], "remove", n))
  /\ UNCHANGED <<o, bstate, stackVars>>

\* the host has drawn a frame and emits 'render'
HostRender ==
  /\ Done("render", Emit(o, Now, "render", Null))
  /\ UNCHANGED <<o, bstate, stackVars>>

\* node n emits the event named by o.updateOn
NodeEvent(n) ==
  /\ n \in graph
  /\ nodeListeners[n] > 0
  /\ Done("node event", layerUpdateOnRenderOnce(Now))
  /\ UNCHANGED <<o, bstate, stackVars>>

\* the host pans or zooms and emits 'viewport': zoomed(), and setViewport of
\* a DOM surface repaints when updateOnTransform is set
BoundViewport(v) ==
  /\ <<v.pan, v.zoom>> # <<host.pan, host.zoom>>
  /\ host' = [host EXCEPT !.pan = v.pan, !.zoom = v.zoom]
  /\ layer' = zoomed(children, layer, host')
  /\ LET s == [Now EXCEPT !.surface = layer'[Bound], !.view = host'] IN
     Done("viewport",
          IF Bound \in Range(layers(children, layer)) /\ layer[Bound].updateOnTransform
          THEN layerUpdate(o, s, NoHint) ELSE s)
  /\ UNCHANGED <<o, bstate, children, thrown>>

\* the surface is painted for an export: the repaint carries forExport
ExportPass ==
  /\ bstate = "active"
  /\ Done("export", layerUpdate(o, Now, ExportHint))
  /\ UNCHANGED <<o, bstate, stackVars>>

(***************************************************************************)
(* The life of the plugin: the exported function layers(cy), the           *)
(* constructor and the destroy handler.                                    *)
(***************************************************************************)
\* plugin instances are numbered from 1; 0 stands for undefined
NoInstance == 0

\* the wrappers of the host's canvases
WrapperTypes == {"node", "drag", "select-box"}

StackListener(type, inst) == [type |-> type, inst |-> inst]

\* the three cy.on calls of the constructor (lines 59-61)
ConstructorListeners(inst) ==
  <<StackListener("viewport", inst), StackListener("resize", inst),
    StackListener("destroy", inst)>>

\* the plugin state the lifecycle handlers work on
LifeNow ==
  [children |-> children, layer |-> layer, scratch |-> scratch,
   instances |-> instances, hostListeners |-> hostListeners,
   removed |-> removed, calls |-> 0, thrown |-> "none", ret |-> NoInstance,
   made |-> FALSE]

\* layer.remove(): the root leaves its parent; the wrapper of a host canvas
\* leaves the host's canvas where it is
surfaceRemove(s, id) ==
  [s EXCEPT !.children = IF s.layer[id].type \in WrapperTypes
                         THEN @ ELSE Detach(@, id),
            !.removed = @ \cup {id}]

RECURSIVE removeEach(_, _)
removeEach(s, l) ==
  IF Len(l) = 0 THEN s ELSE removeEach(surfaceRemove(s, Head(l)), Tail(l))

\* this.cy.off(type, undefined, handler of instance inst)
stackOff(s, type, inst) ==
  LET keep(l) == l # StackListener(type, inst) IN
  [s EXCEPT !.hostListeners = SelectSeq(@, keep)]

\* destroy that leaves the viewport listener registered
destroy_KeepsViewport(s, inst) ==
  LET s1 == removeEach(s, layers(s.children, s.layer))
      s2 == stackOff(s1, "destroy", inst)
      s4 == stackOff(s2, "resize", inst)
  IN  [s4 EXCEPT !.scratch = NoInstance]

\* private destroy (lines 105-114)
destroy(s, inst) ==
  LET s1 == removeEach(s, layers(s.children, s.layer))
      s2 == stackOff(s1, "destroy", inst)
      s3 == stackOff(s2, "viewport", inst)
      s4 == stackOff(s3, "resize", inst)
  IN  [s4 EXCEPT !.scratch = NoInstance]

\* new LayersPlugin(cy): the host canvases get their wrappers and the three
\* listeners are registered
LayersPlugin(s) ==
  LET inst == s.instances + 1 IN
  [s EXCEPT !.instances = inst,
            !.layer = HostLayers @@ @,
            !.removed = @ \ Range(HostCanvases),
            !.hostListeners = @ \o ConstructorListeners(inst),
            !.ret = inst,
            !.made = TRUE]

\* layers(cy) that does not store the instance it constructs
pluginLayers_NoStore(s, hasContainer) ==
  IF ~hasContainer THEN [s EXCEPT !.thrown = "Error"]
  ELSE IF s.scratch # NoInstance THEN [s EXCEPT !.ret = s.scratch]
  ELSE LayersPlugin(s)

\* export function layers(cy) (lines 186-198)
pluginLayers(s, hasContainer) ==
  IF ~hasContainer THEN [s EXCEPT !.thrown = "Error"]
  ELSE IF s.scratch # NoInstance THEN [s EXCEPT !.ret = s.scratch]
  ELSE LET plugin == LayersPlugin(s) IN [plugin EXCEPT !.scratch = plugin.ret]

\* a listener a plugin instance registered is called
StackDispatch(s, l, h) ==
  CASE l.type = "viewport" ->
         [s EXCEPT !.layer = zoomed(s.children, s.layer, h),
                   !.calls = @ + Len(layers(s.children, s.layer))]
    [] l.type = "resize" ->
         [s EXCEPT !.layer = resize(s.children, s.layer, h),
                   !.calls = @ + Len(layers(s.children, s.layer))]
    [] l.type = "destroy" -> destroy(s, l.inst)

RECURSIVE StackCallAll(_, _, _)
StackCallAll(s, snapshot, h) ==
  IF Len(snapshot) = 0 THEN s
  ELSE StackCallAll(StackDispatch(s, Head(snapshot), h), Tail(snapshot), h)

\* the host emits an event: the listeners registered for it are called
StackEmit(s, type, h) ==
  LET of(l) == l.type = type IN
  StackCallAll(s, SelectSeq(s.hostListeners, of), h)

\* the handler is over: s becomes the state
LifeDone(op, s) ==
  /\ children' = s.children
  /\ layer' = s.layer
  /\ scratch' = s.scratch
  /\ instances' = s.instances
  /\ hostListeners' = s.hostListeners
  /\ removed' = s.removed
  /\ thrown' = s.thrown
  /\ lifeLast' = [op |-> op, ret |-> s.ret, made |-> s.made,
                  calls |-> IF s.calls > 0 THEN 1 ELSE 0]

NoLife == [op |-> "none", ret |-> NoInstance, made |-> FALSE, calls |-> 0]

\* the plugin has been constructed by layers(cy) on a host with a container
LifeConstructed ==
  /\ container = TRUE
  /\ scratch = 1
  /\ instances = 1
  /\ hostListeners = ConstructorListeners(1)
  /\ removed = {}
  /\ lifeLast = NoLife

\* the caller calls layers(cy)
CallLayers ==
  /\ (container /\ scratch = NoInstance) => instances < MaxInstances
  /\ LifeDone("layers", pluginLayers(LifeNow, container))
  /\ UNCHANGED <<host, container>>

\* the caller appends a surface to the stored plugin
LifeAppend(type) ==
  /\ scratch # NoInstance
  /\ append(type)
  /\ lifeLast' = [op |-> "append", ret |-> NoInstance, made |-> FALSE, calls |-> 1]
  /\ UNCHANGED <<container, scratch, instances, hostListeners, removed>>

\* the host is destroyed and emits 'destroy'
HostDestroy ==
  /\ LifeDone("destroy", StackEmit(LifeNow, "destroy", host))
  /\ UNCHANGED <<host, container>>

\* the host pans or zooms and emits 'viewport'
LifeViewport(v) ==
  /\ <<v.pan, v.zoom>> # <<host.pan, host.zoom>>
  /\ host' = [host EXCEPT !.pan = v.pan, !.zoom = v.zoom]
  /\ LifeDone("viewport", StackEmit(LifeNow, "viewport", host'))
  /\ UNCHANGED container

\* the host is resized and emits 'resize'
LifeResize(size) ==
  /\ size # <<host.width, host.height>>
  /\ host' = [host EXCEPT !.width = size[1], !.height = size[2]]
  /\ LifeDone("resize", StackEmit(LifeNow, "resize", host'))
  /\ UNCHANGED container

Init == StackInit /\ BindingInit /\ LifeConstructed

Next ==
  \/ \E type \in LayerTypes : append(type) /\ UNCHANGED <<bindingVars, lifeVars>>
  \/ \E where \in Wheres, ref \in DOMAIN layer, type \in LayerTypes :
       insert(where, ref, type) /\ UNCHANGED <<bindingVars, lifeVars>>
  \/ \E id \in Mine, offset \in Offsets : Move(id, offset) /\ UNCHANGED <<bindingVars, lifeVars>>
  \/ \E v \in Viewports : HostViewport(v) /\ UNCHANGED <<bindingVars, lifeVars>>
  \/ \E size \in SizeValues : HostResize(size) /\ UNCHANGED <<bindingVars, lifeVars>>

Spec == Init /\ [][Next]_vars

InitialSize == CHOOSE size \in SizeValues : \A t \in SizeValues : size[1] <= t[1]

\* a surface of the given type has been appended to the fresh stack
BoundAppended(type) ==
  /\ \E v \in Viewports :
       /\ host = [pan |-> v.pan, zoom |-> v.zoom,
                  width |-> InitialSize[1], height |-> InitialSize[2]]
       /\ layer = (Bound :> createLayer(type, host)) @@ HostLayers @@ ForeignLayers
  /\ children = [root |-> Append(HostCanvases, Bound), other |-> <<ForeignAttached>>]
  /\ thrown = "none"
  /\ BindingInit
  /\ LifeConstructed

\* nodes.ts tells a drawing surface from the others (line 173) and schedules
\* the same way on an html and an svg surface
SchedulingTypes == {"canvas", "html"}

InitBinding == \E type \in SchedulingTypes : BoundAppended(type)

\* the options that decide when the binding re-evaluates and repaints, the
\* others at their defaults; checkBounds makes a surface repaint on a
\* viewport change only when it is a DOM or vector surface (lines 173-213)
SchedulingOptions(type) ==
  {opt \in Options :
     /\ opt.position = NoOptions.position
     /\ opt.uniqueElements = NoOptions.uniqueElements
     /\ opt.render = NoOptions.render
     /\ type = "canvas" => opt.checkBounds = NoOptions.checkBounds}

NextBinding ==
  \/ (\E opt \in SchedulingOptions(layer[Bound].type) : renderPerNode(opt))
       /\ UNCHANGED lifeVars
  \/ remove /\ UNCHANGED lifeVars
  \/ (\E n \in Nodes : HostAdd(n)) /\ UNCHANGED lifeVars
  \/ (\E n \in Nodes : HostRemove(n)) /\ UNCHANGED lifeVars
  \/ HostRender /\ UNCHANGED lifeVars
  \/ (\E n \in Nodes : NodeEvent(n)) /\ UNCHANGED lifeVars
  \/ (\E v \in Viewports : BoundViewport(v)) /\ UNCHANGED lifeVars

SpecBinding == InitBinding /\ [][NextBinding]_vars

\* the options that decide what a render pass does, for a cached binding
\* that is invalidated by add and remove events only; the options of the
\* targets are those of a DOM or vector surface, a render callback that
\* changes the context is one of a drawing surface
RenderOptions(type) ==
  {opt \in Options :
     /\ ~opt.queryEachTime
     /\ opt.updateOn = "none"
     /\ IF type = "canvas"
        THEN ~opt.uniqueElements /\ ~opt.allowPartialUpdate
        ELSE opt.render = "plain"}

NextRender ==
  \/ (\E opt \in RenderOptions(layer[Bound].type) : renderPerNode(opt))
       /\ UNCHANGED lifeVars
  \/ (\E n \in Nodes : HostAdd(n)) /\ UNCHANGED lifeVars
  \/ (\E n \in Nodes : HostRemove(n)) /\ UNCHANGED lifeVars
  \/ HostRender /\ UNCHANGED lifeVars
  \/ (\E v \in Viewports : BoundViewport(v)) /\ UNCHANGED lifeVars
  \/ ExportPass /\ UNCHANGED lifeVars

InitRender == \E type \in LayerTypes : BoundAppended(type)

SpecRender == InitRender /\ [][NextRender]_vars

\* the host exists, with or without a container, and layers(cy) has not been
\* called yet: the host's canvases carry no wrapper
InitLife ==
  /\ container \in BOOLEAN
  /\ children = [root |-> IF container THEN HostCanvases ELSE <<>>,
                 other |-> <<ForeignAttached>>]
  /\ layer = ForeignLayers
  /\ host \in {[pan |-> v.pan, zoom |-> v.zoom,
                 width |-> InitialSize[1], height |-> InitialSize[2]] :
                 v \in Viewports}
  /\ thrown = "none"
  /\ scratch = NoInstance
  /\ instances = 0
  /\ hostListeners = <<>>
  /\ removed = {}
  /\ lifeLast = NoLife
  /\ BindingInit

NextLife ==
  \/ CallLayers /\ UNCHANGED bindingVars
  \/ \E type \in LayerTypes : LifeAppend(type) /\ UNCHANGED bindingVars
  \/ HostDestroy /\ UNCHANGED bindingVars
  \/ \E v \in Viewports : LifeViewport(v) /\ UNCHANGED bindingVars
  \/ \E size \in SizeValues : LifeResize(size) /\ UNCHANGED bindingVars

SpecLife == InitLife /\ [][NextLife]_vars

(***************************************************************************)
(* Properties of the layer stack.                                          *)
(***************************************************************************)
Stack == layers(children, layer)

\* max(0, min(i + offset, n - 1))
ClampedIndex(i, offset, n) == MaxOf({0, MinOf({i + offset, n - 1})})

Carries(l, h) ==
  /\ l.transform.tx = h.pan[1]
  /\ l.transform.ty = h.pan[2]
  /\ l.transform.scale = h.zoom

\* C1: move(surface, offset) of the surface at index i of a stack of n
\* surfaces leaves it at index max(0, min(i + offset, n - 1)) and keeps the
\* relative order of the others.
C1_MoveClampsToRange ==
  [][\A id \in Mine, offset \in Offsets :
       (id \in Range(Stack) /\ Move(id, offset)) =>
         layers(children', layer') =
           InsertAt(Without(Stack, id),
                    ClampedIndex(IndexOf(Stack, id), offset, Len(Stack)), id)]_stackVars

\* C6: getLayers() is the child order of the container restricted to the
\* children that are surfaces; getFirst()/getLast() are its first/last member,
\* or null when it is empty.
C6_EnumerateIsChildOrder ==
  LET e == getLayers(children, layer)
      c == children[root]
  IN  /\ Range(e) = {d \in Range(c) : d \in DOMAIN layer}
      /\ \A i, j \in 1..Len(e) : i < j => IndexOf(c, e[i]) < IndexOf(c, e[j])
      /\ getFirst(children, layer) = IF Len(e) = 0 THEN Null ELSE e[1]
      /\ getLast(children, layer) = IF Len(e) = 0 THEN Null ELSE e[Len(e)]

\* a created surface stands first, in a container that also holds an element
\* that is no surface
C6_Witness ==
  /\ PlainElement \in Range(children[root])
  /\ getFirst(children, layer) = NewIds[1]
  /\ getLast(children, layer) = HostCanvases[3]

\* C7: insert(where, ref, kind) with ref a member adds exactly one surface,
\* immediately before ref for 'before' and immediately after it for 'after',
\* and keeps the order of the existing surfaces.  (Only a step that creates a
\* surface can be an insert.)
C7_InsertIsAdjacent ==
  [][\A ref \in Range(Stack) :
       DOMAIN layer' # DOMAIN layer =>
         \A where \in Wheres, type \in LayerTypes :
           insert(where, ref, type) =>
             layers(children', layer') =
               InsertAt(Stack,
                        IF where = "before" THEN IndexOf(Stack, ref)
                                            ELSE IndexOf(Stack, ref) + 1,
                        NextId(layer))]_stackVars

\* the new surface stands between two host canvases: only an insert next to
\* one of them puts it there
C7_Witness ==
  Stack = <<HostCanvases[1], HostCanvases[2], NewIds[1], HostCanvases[3]>>

\* C8: insert(where, ref, kind) with ref outside the stack fails as a caller
\* error and places no surface anywhere.
C8_InsertRejectsForeignRef ==
  [][\A where \in Wheres, ref \in DOMAIN layer, type \in LayerTypes :
       (ref \notin Range(Stack) /\ insert(where, ref, type)) =>
         (thrown' # "none" /\ children' = children)]_stackVars

\* C9: append(kind) adds exactly one surface as the last member, getLast()
\* returns it, the others keep their order, and it carries the host's
\* current size, pan and zoom.
C9_AppendIsLastAndInitialised ==
  [][\A type \in LayerTypes :
       append(type) =>
         LET id == NextId(layer) IN
         /\ layers(children', layer') = Append(Stack, id)
         /\ getLast(children', layer') = id
         /\ layer'[id].type = type
         /\ layer'[id].size = <<host'.width, host'.height>>
         /\ Carries(layer'[id], host')]_stackVars

\* the appended surface is the last child, behind the element that is no
\* surface, and carries a viewport other than the initial one
C9_Witness ==
  /\ children[root] = HostCanvases \o <<PlainElement, NewIds[1]>>
  /\ getLast(children, layer) = NewIds[1]
  /\ layer[NewIds[1]].type = "html"
  /\ layer[NewIds[1]].transform.scale = 2
  /\ Carries(layer[NewIds[1]], host)

\* C10: every non-static surface of the stack carries the host's current
\* pan and zoom.
C10_StackCarriesViewport ==
  \A id \in Range(Stack) :
    layer[id].type \notin StaticTypes => Carries(layer[id], host)

(***************************************************************************)
(* Properties of the life of the plugin.                                   *)
(***************************************************************************)
\* C11: destroy() calls remove() on every member surface, which detaches
\* every surface the stack created, and takes the stack's viewport, resize
\* and destroy listeners off the host; afterwards a viewport or resize event
\* of the host calls setViewport or resize on no surface.
C11_DestroyRemovesAndDetaches ==
  [][/\ (scratch # NoInstance /\ HostDestroy) =>
          /\ \A id \in Range(Stack) :
               /\ id \in removed'
               /\ layer[id].type \in LayerTypes => ParentOf(children', id) = Null
          /\ \A i \in 1..Len(hostListeners') : hostListeners'[i].inst # scratch
     /\ (scratch = NoInstance /\ instances > 0 /\
           ((\E v \in Viewports : LifeViewport(v)) \/
            (\E size \in SizeValues : LifeResize(size)))) =>
          (lifeLast'.calls = 0 /\ layer' = layer)]_vars

\* the stack with one appended surface was destroyed and the host has then
\* zoomed: the surface is detached and still carries the old pan and zoom
C11_Witness ==
  /\ scratch = NoInstance /\ instances = 1
  /\ lifeLast.op = "viewport" /\ lifeLast.calls = 0
  /\ hostListeners = <<>>
  /\ NewIds[1] \in removed
  /\ ParentOf(children, NewIds[1]) = Null
  /\ layer[NewIds[1]].type = "svg"
  /\ ~Carries(layer[NewIds[1]], host)

\* C20: on a host with a container layers(cy) returns the stored instance
\* and constructs one only when none is stored, so the listeners on the host
\* are those of the stored instance alone; destroy clears the stored
\* instance; on a host without a container the call throws and stores none.
C20_OneInstancePerHost ==
  [][/\ (container /\ scratch # NoInstance /\ CallLayers) =>
          /\ lifeLast'.ret = scratch /\ ~lifeLast'.made
          /\ <<scratch', instances', hostListeners'>> =
               <<scratch, instances, hostListeners>>
     /\ (container /\ scratch = NoInstance /\ CallLayers) =>
          /\ lifeLast'.ret = instances + 1 /\ lifeLast'.made
          /\ scratch' = instances + 1
          /\ hostListeners' = ConstructorListeners(instances + 1)
     /\ (~container /\ CallLayers) =>
          /\ thrown' = "Error"
          /\ <<scratch', instances', hostListeners'>> =
               <<NoInstance, instances, hostListeners>>
     /\ HostDestroy => scratch' = NoInstance
     /\ \A i \in 1..Len(hostListeners') :
          hostListeners'[i].inst = scratch' /\ scratch' # NoInstance]_vars

\* after a destroy a second instance was constructed, and a further call of
\* layers(cy) returned that instance without constructing one
C20_Witness ==
  /\ container
  /\ lifeLast.op = "layers" /\ ~lifeLast.made /\ lifeLast.ret = 2
  /\ scratch = 2 /\ instances = 2
  /\ hostListeners = ConstructorListeners(2)

(***************************************************************************)
(* Properties of the binding.                                              *)
(***************************************************************************)
\* the listeners the binding installed that are registered now
InstalledOnHost ==
  {i \in 1..Len(cyListeners) :
     cyListeners[i].cb \in {"revaluateAndUpdateOnce", "removeNode"}}

InstalledOnNodes == {n \in Nodes : nodeListeners[n] > 0}

\* C2: in cached mode a burst of N >= 1 add/remove events before the next
\* render tick causes exactly one re-evaluation and at most one repaint,
\* those scheduled for a later tick included.
C2_BurstOneRevalOneRepaint ==
  burst.phase # "idle" =>
    /\ burst.updates <= 1
    /\ burst.revals <= 1
    /\ burst.phase = "ticked" => burst.revals = 1

\* C3: when remove() has returned, no listener of the binding is registered.
C3_RemoveUnregistersAll ==
  last.op = "remove" => (InstalledOnHost = {} /\ InstalledOnNodes = {})

\* C4: a binding removed while its one-shot callback is pending is not
\* re-evaluated when the render tick comes (the callback is gone or does
\* nothing).
C4_NoLateReevaluation ==
  (bstate = "removed" /\ last.op = "render") => last.revals = 0

PendingOnce ==
  {i \in 1..Len(cyListeners) : cyListeners[i] = Listener("render", "revaluateOnce", TRUE)}

\* C18: a binding has at most one pending one-shot render listener of
\* revaluateAndUpdateOnce, exactly when its flag is set: an invalidation
\* while one is pending registers nothing, and an invalidation after it has
\* fired registers one again.
C18_OnePendingOneShot ==
  /\ Cardinality(PendingOnce) = IF updateOnRenderOnceEnabled THEN 1 ELSE 0
  /\ (bstate = "active" /\ ~o.queryEachTime /\ last.op = "add") =>
       updateOnRenderOnceEnabled

\* node 2 was added and node 1 removed since the collection was evaluated:
\* two invalidations and one pending listener
C18_Witness ==
  /\ bstate = "active" /\ ~o.queryEachTime /\ ~o.allowPartialUpdate
  /\ nodes = {1} /\ graph = {2}
  /\ last.op = "remove node"
  /\ updateOnRenderOnceEnabled
  /\ Cardinality(PendingOnce) = 1

\* the registrations of a handler on the host's 'remove' event
OnRemove(cb) ==
  {i \in 1..Len(cyListeners) : cyListeners[i] = Listener("remove", cb, FALSE)}

\* C19: in cached mode with allowPartialUpdate removeNode is registered at
\* most once on the host's 'remove' event, so a remove event calls removeNode
\* once (one repaint) and schedules no full re-evaluation besides.
C19_RemoveNodeRegisteredOnce ==
  (bstate = "active" /\ ~o.queryEachTime /\ o.allowPartialUpdate) =>
    /\ Cardinality(OnRemove("removeNode")) <= 1
    /\ OnRemove("revaluateAndUpdateOnce") = {}
    /\ last.op = "remove node" => last.updates = 1

(***************************************************************************)
(* Properties of the render passes.                                        *)
(***************************************************************************)
OnDOM == layer[Bound].type \in {"html", "svg"}

\* C12: with uniqueElements and allowPartialUpdate on, on a DOM or vector
\* surface, no pass makes an existing render target anew; the add of one
\* element gives exactly one new target, at the render tick that follows it;
\* the remove of an element with a target takes exactly that target away.
C12_PartialUpdateKeepsTargets ==
  [][(bstate = "active" /\ o.uniqueElements /\ o.allowPartialUpdate /\ OnDOM) =>
       /\ last'.created \cap targets = {}
       /\ \A n \in Nodes :
            /\ HostAdd(n) => targets' = targets
            /\ (HostRemove(n) /\ n \in targets) => targets' = targets \ {n}
       /\ (HostRender /\ updateOnRenderOnceEnabled /\ targets \subseteq graph
             /\ Cardinality(graph \ targets) = 1) =>
            /\ targets' = graph
            /\ last'.created = graph \ targets]_vars

\* node 2 was added to a binding that had a target for node 1, and the
\* render tick made one target, for node 2
C12_Witness ==
  /\ bstate = "active" /\ o.uniqueElements /\ o.allowPartialUpdate /\ OnDOM
  /\ last.op = "render"
  /\ targets = {1, 2}
  /\ last.created = {2}

\* C13: no render pass calls the render callback for a node that is removed
\* at the time of the pass, on any kind of surface, a pass on a stale cached
\* collection included.
C13_NeverRendersRemoved ==
  bstate = "active" => last.rendered \subseteq graph

\* C15: with checkBounds on, a node whose bounding box is outside the
\* visible area is not rendered by a normal pass and is rendered by a pass
\* flagged as export, on every kind of surface.
C15_BoundsCheckedUnlessExport ==
  (bstate = "active" /\ o.checkBounds) =>
    /\ last.op # "export" =>
         \A n \in last.rendered : inVisibleBounds(BoundingBox(n), host)
    /\ last.op = "export" => (nodes \cap graph) \subseteq last.rendered

\* C16: in a pass of a drawing surface every element's turn starts with the
\* transform the context had when the pass started, for every position mode
\* and every render callback.
C16_TransformRestoredEachTurn ==
  (bstate = "active" /\ layer[Bound].type = "canvas") => ~last.leaked

\* the anchoring the position mode asks for, for node n on a target whose
\* transform was from
Anchored(from, n) ==
  LET bb == BoundingBox(n)
      pos == NodePosition(n)
      x == IF o.position = "center" THEN pos[1] ELSE bb.x1
      y == IF o.position = "center" THEN pos[2] ELSE bb.y1
  IN  IF o.position = "none" THEN from
      ELSE IF layer[Bound].type = "canvas"
           THEN [from EXCEPT !.tx = @ + from.scale * x, !.ty = @ + from.scale * y]
           ELSE [fn |-> "translate3d", x |-> x, y |-> y,
                 unit |-> IF layer[Bound].type = "html" THEN "px" ELSE ""]

====
